---------------------------- MODULE Spec2Model ----------------------------
(***************************************************************************)
(* fix_sqlx_pools.py: a script that rewrites `pool` call arguments to       *)
(* `&*pool` in every *.rs file under a source directory.                    *)
(*                                                                          *)
(* A text is a sequence of one-character strings.  The six re.sub calls are *)
(* modelled character by character: a leftmost, greedy, backtracking match  *)
(* at each position and a left-to-right scan for non-overlapping matches.   *)
(* The file system is a function from the *.rs files of the tree to texts;  *)
(* every I/O call of fix_pool_patterns may raise.                           *)
(***************************************************************************)
EXTENDS Naturals, Sequences, FiniteSets

VARIABLES
    rootExists,        \* src_dir.exists()
    tree,              \* the *.rs files under src_dir, named 1..n in path order
    disk,              \* disk[f]: the bytes of file f
    snap,              \* snap[r]: disk as it was when run r started (history)
    run,               \* number of the current invocation of the script
    pc,                \* main: "start", "scan", "loop", "done", "aborted", "crashed"
    rust_files,        \* main's list of scanned paths
    idx,               \* position of the for loop in rust_files
    fixed_count,       \* main's counter
    fpc,               \* fix_pool_patterns: "idle", "read", "sub", "cmp", "write", "except", "ret"
    file_path,         \* its argument
    content,           \* its local `content`
    original_content,  \* its local `original_content`
    rule,              \* the next substitution to apply (1..NumRules)
    exc,               \* the exception being raised inside the try block
    retval,            \* its return value
    calls,             \* calls[f]: calls of fix_pool_patterns(f) in this run (history)
    opens,             \* opens[f]: open(f, 'w') calls in this run (history)
    printed            \* printed[f]: what was printed about f in this run

vars == << rootExists, tree, disk, snap, run, pc, rust_files, idx, fixed_count,
           fpc, file_path, content, original_content, rule, exc, retval,
           calls, opens, printed >>

---------------------------------------------------------------------------
(* Bounds of the model *)

\* number of *.rs files a tree may hold
NumFiles == 2
\* a generated text is the concatenation of at most MaxFrags fragments
MaxFrags == 3
\* the script is invoked at most MaxRuns times
MaxRuns == 2

---------------------------------------------------------------------------
(* Characters and character classes of the regular expressions *)

Lower == {"a", "b", "c", "d", "e", "f", "g", "h", "i", "j", "k", "l", "m",
          "n", "o", "p", "q", "r", "s", "t", "u", "v", "w", "x", "y", "z"}
Upper == {"A", "B", "C", "D", "E", "F", "G", "H", "I", "J", "K", "L", "M",
          "N", "O", "P", "Q", "R", "S", "T", "U", "V", "W", "X", "Y", "Z"}
Digit == {"0", "1", "2", "3", "4", "5", "6", "7", "8", "9"}

\* [a-zA-Z_]
IdentStart == Lower \cup Upper \cup {"_"}
\* [a-zA-Z0-9_]
IdentChar == IdentStart \cup Digit

\* the `::` that ends the optional first group
PathSep == <<":", ":">>

\* the value of a local that was never assigned
Unset == <<"<unset>">>

---------------------------------------------------------------------------
\* The six rules, in the order of the source.  A rule with groups = TRUE has
\* the pattern: an optional first group (an identifier and `::`), a second
\* group (an identifier), then `pattern`; its template is the two groups
\* followed by `template`.  An identifier is one IdentStart character and any
\* number of IdentChar characters.

PatExecute == <<".", "e", "x", "e", "c", "u", "t", "e", "(", "p", "o", "o", "l", ")">>
RepExecute == <<".", "e", "x", "e", "c", "u", "t", "e", "(", "&", "*", "p", "o", "o", "l", ")">>
PatFetchOne == <<".", "f", "e", "t", "c", "h", "_", "o", "n", "e", "(", "p", "o", "o", "l", ")">>
RepFetchOne == <<".", "f", "e", "t", "c", "h", "_", "o", "n", "e", "(", "&", "*", "p", "o", "o", "l", ")">>
PatFetchAll == <<".", "f", "e", "t", "c", "h", "_", "a", "l", "l", "(", "p", "o", "o", "l", ")">>
RepFetchAll == <<".", "f", "e", "t", "c", "h", "_", "a", "l", "l", "(", "&", "*", "p", "o", "o", "l", ")">>
PatFetchOptional == <<".", "f", "e", "t", "c", "h", "_", "o", "p", "t", "i", "o", "n", "a", "l", "(", "p", "o", "o", "l", ")">>
RepFetchOptional == <<".", "f", "e", "t", "c", "h", "_", "o", "p", "t", "i", "o", "n", "a", "l", "(", "&", "*", "p", "o", "o", "l", ")">>
PatCallComma == <<"(", "p", "o", "o", "l", ",">>
RepCallComma == <<"(", "&", "*", "p", "o", "o", "l", ",">>
PatCallClose == <<"(", "p", "o", "o", "l", ")">>
RepCallClose == <<"(", "&", "*", "p", "o", "o", "l", ")">>

\* mutant: the last rule loses its `\(` and matches `pool)` anywhere
Rules_BareClose ==
    << [groups |-> FALSE, pattern |-> PatExecute,       template |-> RepExecute],
       [groups |-> FALSE, pattern |-> PatFetchOne,      template |-> RepFetchOne],
       [groups |-> FALSE, pattern |-> PatFetchAll,      template |-> RepFetchAll],
       [groups |-> FALSE, pattern |-> PatFetchOptional, template |-> RepFetchOptional],
       [groups |-> TRUE,  pattern |-> PatCallComma,     template |-> RepCallComma],
       [groups |-> FALSE, pattern |-> <<"p", "o", "o", "l", ")">>,
                          template |-> <<"&", "*", "p", "o", "o", "l", ")">>] >>

\* mutant: the fifth rule rewrites `pool,` wherever it stands
Rules_BareComma ==
    << [groups |-> FALSE, pattern |-> PatExecute,       template |-> RepExecute],
       [groups |-> FALSE, pattern |-> PatFetchOne,      template |-> RepFetchOne],
       [groups |-> FALSE, pattern |-> PatFetchAll,      template |-> RepFetchAll],
       [groups |-> FALSE, pattern |-> PatFetchOptional, template |-> RepFetchOptional],
       [groups |-> FALSE, pattern |-> <<"p", "o", "o", "l", ",">>,
                          template |-> <<"&", "*", "p", "o", "o", "l", ",">>],
       [groups |-> TRUE,  pattern |-> PatCallClose,     template |-> RepCallClose] >>

\* mutant: the last rule loses its closing `\)`
Rules_NoClose ==
    << [groups |-> FALSE, pattern |-> PatExecute,       template |-> RepExecute],
       [groups |-> FALSE, pattern |-> PatFetchOne,      template |-> RepFetchOne],
       [groups |-> FALSE, pattern |-> PatFetchAll,      template |-> RepFetchAll],
       [groups |-> FALSE, pattern |-> PatFetchOptional, template |-> RepFetchOptional],
       [groups |-> TRUE,  pattern |-> PatCallComma,     template |-> RepCallComma],
       [groups |-> TRUE,  pattern |-> <<"(", "p", "o", "o", "l">>,
                          template |-> <<"(", "&", "*", "p", "o", "o", "l">>] >>

Rules ==
    << [groups |-> FALSE, pattern |-> PatExecute,       template |-> RepExecute],
       [groups |-> FALSE, pattern |-> PatFetchOne,      template |-> RepFetchOne],
       [groups |-> FALSE, pattern |-> PatFetchAll,      template |-> RepFetchAll],
       [groups |-> FALSE, pattern |-> PatFetchOptional, template |-> RepFetchOptional],
       [groups |-> TRUE,  pattern |-> PatCallComma,     template |-> RepCallComma],
       [groups |-> TRUE,  pattern |-> PatCallClose,     template |-> RepCallClose] >>

NumRules == Len(Rules)

---------------------------------------------------------------------------
(* re.sub *)

Max(S) == CHOOSE x \in S : \A y \in S : y <= x

\* the literal `lit` stands in s at position i
LitAt(lit, s, i) ==
    /\ i >= 1
    /\ i + Len(lit) - 1 <= Len(s)
    /\ \A k \in 1..Len(lit) : s[i + k - 1] = lit[k]

\* the first position at or after j that holds no [a-zA-Z0-9_]
RECURSIVE RunEnd(_, _)
RunEnd(s, j) ==
    IF j <= Len(s) /\ s[j] \in IdentChar THEN RunEnd(s, j + 1) ELSE j

\* the positions where a match of an identifier begun at i may end
\* (exclusive): the greedy star gives back one character at a time
IdentEnds(s, i) ==
    IF i >= 1 /\ i <= Len(s) /\ s[i] \in IdentStart
    THEN (i + 1)..RunEnd(s, i + 1)
    ELSE {}

NoMatch == [end |-> 0, g1 |-> <<>>, g2 |-> <<>>]

\* the match of rule r that starts at position i of s: the position after it
\* (0 when there is none) and the text of the two groups.  The optional group
\* is tried first, each identifier is tried longest first.
MatchAt(r, s, i) ==
    IF ~r.groups
    THEN IF LitAt(r.pattern, s, i)
         THEN [end |-> i + Len(r.pattern), g1 |-> <<>>, g2 |-> <<>>]
         ELSE NoMatch
    ELSE LET Second(j) == {e \in IdentEnds(s, j) : LitAt(r.pattern, s, e)}
             First     == {e \in IdentEnds(s, i) :
                              /\ LitAt(PathSep, s, e)
                              /\ Second(e + Len(PathSep)) # {}}
         IN  IF First # {}
             THEN LET e1 == Max(First)
                      b2 == e1 + Len(PathSep)
                      e2 == Max(Second(b2))
                  IN  [end |-> e2 + Len(r.pattern),
                       g1  |-> SubSeq(s, i, b2 - 1),
                       g2  |-> SubSeq(s, b2, e2 - 1)]
             ELSE IF Second(i) # {}
             THEN LET e2 == Max(Second(i))
                  IN  [end |-> e2 + Len(r.pattern),
                       g1  |-> <<>>,
                       g2  |-> SubSeq(s, i, e2 - 1)]
             ELSE NoMatch

\* mutant: the template forgets the first group
Expand_DropQualifier(r, m) ==
    IF r.groups THEN m.g2 \o r.template ELSE r.template

\* the template of rule r instantiated for match m; a group that took no part
\* in the match expands to the empty string (Python 3.5 and later)
Expand(r, m) ==
    IF r.groups THEN m.g1 \o m.g2 \o r.template ELSE r.template

\* re.sub(r, s) from position pos on: matches are taken leftmost first and do
\* not overlap, unmatched characters are copied
RECURSIVE SubFrom(_, _, _)
SubFrom(r, s, pos) ==
    IF pos > Len(s) THEN <<>>
    ELSE LET m == MatchAt(r, s, pos)
         IN  IF m.end # 0
             THEN Expand(r, m) \o SubFrom(r, s, m.end)
             ELSE <<s[pos]>> \o SubFrom(r, s, pos + 1)

Sub(r, s) == SubFrom(r, s, 1)

\* the chain of substitutions from rule k on
RECURSIVE ApplyFrom(_, _)
ApplyFrom(k, s) ==
    IF k > NumRules THEN s ELSE ApplyFrom(k + 1, Sub(Rules[k], s))

ApplyRules(s) == ApplyFrom(1, s)


---------------------------------------------------------------------------
(* The texts the files may hold *)

\* pieces of Rust source: callees and argument lists
Fragments ==
    << <<".", "e", "x", "e", "c", "u", "t", "e">>,
       <<".", "f", "e", "t", "c", "h", "_", "o", "n", "e">>,
       <<".", "f", "e", "t", "c", "h", "_", "a", "l", "l">>,
       <<"f">>,
       <<"a", ":", ":">>,
       <<"(", "p", "o", "o", "l", ")">>,
       <<"(", "p", "o", "o", "l", ",">>,
       <<"(", "&", "*", "p", "o", "o", "l", ")">> >>

\* whole texts: the scenarios the documentation and the rules name
Samples ==
    << <<".", "e", "x", "e", "c", "u", "t", "e", "(", "p", "o", "o", "l", ")", "\n", ".", "f", "e", "t", "c", "h", "_", "o", "n", "e", "(", "p", "o", "o", "l", ")", "\n">>,
       <<"f", "(", "p", "o", "o", "l", "m", "a", "n", "a", "g", "e", "r", ")">>,
       <<"f", "(", "m", "y", "p", "o", "o", "l", ")">>,
       <<"f", "(", "p", "o", "o", "l", "_", "x", ",">>,
       <<".", "e", "x", "e", "c", "u", "t", "e", "(", "m", "y", "p", "o", "o", "l", ")">>,
       <<"a", ":", ":", "b", "(", "p", "o", "o", "l", ",", " ", "x", ")">>,
       <<"f", "(", "&", "*", "&", "*", "p", "o", "o", "l", ")", "g", "(", "p", "o", "o", "l", ")">>,
       <<"x", ".", "9", "f", "(", "p", "o", "o", "l", ")", "(", "p", "o", "o", "l", ")">>,
       <<"9", "(", "p", "o", "o", "l", ")", "a", ":", ":", "9", "(", "p", "o", "o", "l", ",">>,
       <<"_", "q", "9", ":", ":", "r", "_", "(", "p", "o", "o", "l", ")", "p", "o", "o", "l", ")">>,
       <<".", "f", "e", "t", "c", "h", "_", "o", "p", "t", "i", "o", "n", "a", "l", "(", "p", "o", "o", "l", ")", ".", "f", "e", "t", "c", "h", "_", "o", "p", "t", "i", "o", "n", "a", "l", "(", "p", "o", "o", "l", ",">> >>

\* short texts for the files of a tree
TreeSamples ==
    << <<"f", "(", "p", "o", "o", "l", ")">>,
       <<"g", "(", "m", "y", "p", "o", "o", "l", ")">>,
       <<"h", "(", "&", "*", "p", "o", "o", "l", ",">> >>

RECURSIVE Flatten(_)
Flatten(fs) ==
    IF fs = <<>> THEN <<>> ELSE Fragments[Head(fs)] \o Flatten(Tail(fs))

\* the texts made of at most MaxFrags fragments, and the samples
Inputs ==
    { Flatten(fs) : fs \in UNION { [1..n -> DOMAIN Fragments] : n \in 0..MaxFrags } }
    \cup { Samples[k] : k \in DOMAIN Samples }

TreeInputs == { TreeSamples[k] : k \in DOMAIN TreeSamples }

---------------------------------------------------------------------------
(* The script *)

NoneOf(S) == [f \in S |-> 0]
Silent(S) == [f \in S |-> "nothing"]

InitRun ==
    /\ run = 1
    /\ snap = <<disk>>
    /\ pc = "start"
    /\ rust_files = <<>>
    /\ idx = 0
    /\ fixed_count = 0
    /\ fpc = "idle"
    /\ file_path = 0
    /\ content = Unset
    /\ original_content = Unset
    /\ rule = 0
    /\ exc = "none"
    /\ retval = FALSE
    /\ calls = NoneOf(tree)
    /\ opens = NoneOf(tree)
    /\ printed = Silent(tree)

\* a tree of up to NumFiles short files; a missing source directory holds none
InitTree ==
    /\ rootExists \in BOOLEAN
    /\ tree \in { 1..n : n \in 0..NumFiles }
    /\ ~rootExists => tree = {}
    /\ disk \in [tree -> TreeInputs]
    /\ InitRun

\* one file holding any of the generated texts
InitText ==
    /\ rootExists = TRUE
    /\ tree = {1}
    /\ disk \in [tree -> Inputs]
    /\ InitRun

Init == InitTree \/ InitText

\* the orders in which the directory walk may yield the files of S
Orders(S) ==
    { p \in [1..Cardinality(S) -> S] : \A a, b \in DOMAIN p : a # b => p[a] # p[b] }

mainVars == << pc, rust_files, idx, fixed_count >>
callVars == << fpc, file_path, content, original_content, rule, exc, retval >>
histVars == << calls, opens, printed >>
envVars  == << rootExists, tree, snap, run >>

\* mutant: main scans without looking at src_dir.exists()
MainCheckRoot_NoCheck ==
    /\ pc = "start"
    /\ pc' = "scan"
    /\ UNCHANGED << rust_files, idx, fixed_count, disk, callVars, histVars, envVars >>

\* main, lines 42-46: return when the source directory is missing
MainCheckRoot ==
    /\ pc = "start"
    /\ pc' = IF rootExists THEN "scan" ELSE "aborted"
    /\ UNCHANGED << rust_files, idx, fixed_count, disk, callVars, histVars, envVars >>

\* main, lines 48-51: list(src_dir.rglob("*.rs")) in the order the directory
\* walk yields, which the file system decides
MainScan ==
    /\ pc = "scan"
    /\ \E p \in Orders(tree) : rust_files' = p
    /\ idx' = 1
    /\ fixed_count' = 0
    /\ pc' = "loop"
    /\ UNCHANGED << disk, callVars, histVars, envVars >>

\* main, lines 52-53: the loop calls fix_pool_patterns on the next path
MainCall ==
    /\ pc = "loop"
    /\ fpc = "idle"
    /\ idx <= Len(rust_files)
    /\ file_path' = rust_files[idx]
    /\ calls' = [calls EXCEPT ![rust_files[idx]] = @ + 1]
    /\ content' = Unset
    /\ original_content' = Unset
    /\ rule' = 0
    /\ exc' = "none"
    /\ fpc' = "read"
    /\ UNCHANGED << retval, opens, printed, disk, mainVars, envVars >>

\* fix_pool_patterns, lines 14-17: read the file
FppRead ==
    /\ fpc = "read"
    /\ content' = disk[file_path]
    /\ original_content' = disk[file_path]
    /\ rule' = 1
    /\ fpc' = "sub"
    /\ UNCHANGED << file_path, exc, retval, disk, mainVars, histVars, envVars >>

\* lines 14-15 raise: the file cannot be opened, read or decoded
FppReadError ==
    /\ fpc = "read"
    /\ exc' = "read"
    /\ fpc' = "except"
    /\ UNCHANGED << file_path, content, original_content, rule, retval,
                    disk, mainVars, histVars, envVars >>

\* lines 21-28: the next re.sub, on the result of the one before
FppSub ==
    /\ fpc = "sub"
    /\ rule <= NumRules
    /\ content' = Sub(Rules[rule], content)
    /\ rule' = rule + 1
    /\ fpc' = IF rule = NumRules THEN "cmp" ELSE "sub"
    /\ UNCHANGED << file_path, original_content, exc, retval,
                    disk, mainVars, histVars, envVars >>

\* lines 30, 35: nothing changed, return False
FppUnchanged ==
    /\ fpc = "cmp"
    /\ content = original_content
    /\ retval' = FALSE
    /\ fpc' = "ret"
    /\ UNCHANGED << file_path, content, original_content, rule, exc,
                    disk, mainVars, histVars, envVars >>

\* mutant: the file is opened for writing whatever the comparison says
FppOpenWrite_Always ==
    /\ fpc = "cmp"
    /\ opens' = [opens EXCEPT ![file_path] = @ + 1]
    /\ disk' = [disk EXCEPT ![file_path] = <<>>]
    /\ fpc' = "write"
    /\ UNCHANGED << file_path, content, original_content, rule, exc, retval,
                    calls, printed, mainVars, envVars >>

\* lines 30-31: open(file_path, 'w') truncates the file
FppOpenWrite ==
    /\ fpc = "cmp"
    /\ content # original_content
    /\ opens' = [opens EXCEPT ![file_path] = @ + 1]
    /\ disk' = [disk EXCEPT ![file_path] = <<>>]
    /\ fpc' = "write"
    /\ UNCHANGED << file_path, content, original_content, rule, exc, retval,
                    calls, printed, mainVars, envVars >>

\* line 31 raises: the file cannot be opened for writing
FppOpenWriteError ==
    /\ fpc = "cmp"
    /\ content # original_content
    /\ opens' = [opens EXCEPT ![file_path] = @ + 1]
    /\ exc' = "open"
    /\ fpc' = "except"
    /\ UNCHANGED << file_path, content, original_content, rule, retval,
                    disk, calls, printed, mainVars, envVars >>

\* lines 32-34: the content is written, the file closed, "Fixed" printed
FppWrite ==
    /\ fpc = "write"
    /\ disk' = [disk EXCEPT ![file_path] = content]
    /\ printed' = [printed EXCEPT ![file_path] = "fixed"]
    /\ retval' = TRUE
    /\ fpc' = "ret"
    /\ UNCHANGED << file_path, content, original_content, rule, exc,
                    calls, opens, mainVars, envVars >>

\* line 32 or the close raises after k characters reached the file
FppWriteError ==
    /\ fpc = "write"
    /\ \E k \in 0..(Len(content) - 1) :
           disk' = [disk EXCEPT ![file_path] = SubSeq(content, 1, k)]
    /\ exc' = "write"
    /\ fpc' = "except"
    /\ UNCHANGED << file_path, content, original_content, rule, retval,
                    histVars, mainVars, envVars >>

\* mutant: the exception leaves fix_pool_patterns and ends main
FppExcept_Propagate ==
    /\ fpc = "except"
    /\ pc' = "crashed"
    /\ fpc' = "idle"
    /\ UNCHANGED << rust_files, idx, fixed_count, file_path, content,
                    original_content, rule, exc, retval, disk, histVars, envVars >>

\* lines 36-38: the handler prints the path and the cause, returns False
FppExcept ==
    /\ fpc = "except"
    /\ printed' = [printed EXCEPT ![file_path] = exc]
    /\ retval' = FALSE
    /\ fpc' = "ret"
    /\ UNCHANGED << file_path, content, original_content, rule, exc,
                    disk, calls, opens, mainVars, envVars >>

\* main, lines 53-54: count the file when the call returned True
MainCount ==
    /\ pc = "loop"
    /\ fpc = "ret"
    /\ fixed_count' = IF retval THEN fixed_count + 1 ELSE fixed_count
    /\ idx' = idx + 1
    /\ fpc' = "idle"
    /\ UNCHANGED << pc, rust_files, file_path, content, original_content, rule,
                    exc, retval, disk, histVars, envVars >>

\* main, line 56: the summary
MainSummary ==
    /\ pc = "loop"
    /\ fpc = "idle"
    /\ idx > Len(rust_files)
    /\ pc' = "done"
    /\ UNCHANGED << rust_files, idx, fixed_count, disk, callVars, histVars, envVars >>

\* lines 58-59: the script is invoked again on the tree the last run left.
\* Only reruns after a run that printed no error are explored, at most
\* MaxRuns runs in all.
Rerun ==
    /\ pc = "done"
    /\ run < MaxRuns
    /\ \A f \in tree : printed[f] \in {"nothing", "fixed"}
    /\ run' = run + 1
    /\ snap' = Append(snap, disk)
    /\ pc' = "start"
    /\ rust_files' = <<>>
    /\ idx' = 0
    /\ fixed_count' = 0
    /\ calls' = NoneOf(tree)
    /\ opens' = NoneOf(tree)
    /\ printed' = Silent(tree)
    /\ UNCHANGED << rootExists, tree, disk, callVars >>

Next ==
    \/ MainCheckRoot
    \/ MainScan
    \/ MainCall
    \/ FppRead
    \/ FppReadError
    \/ FppSub
    \/ FppUnchanged
    \/ FppOpenWrite
    \/ FppOpenWriteError
    \/ FppWrite
    \/ FppWriteError
    \/ FppExcept
    \/ MainCount
    \/ MainSummary
    \/ Rerun

\* runs over a tree of short files and runs over one file of any generated text
Spec == Init /\ [][Next]_vars

\* runs over a tree of short files
SpecTree == InitTree /\ [][Next]_vars

\* the content of f when the current run started
Pre(f) == snap[run][f]


---------------------------------------------------------------------------
(* What the rules are meant to do, stated without the matching algorithm *)

Pool == <<"p", "o", "o", "l">>
Deref == <<"&", "*">>
DoubleDeref == Deref \o Deref \o Pool

\* the four method calls the first pass names
MethodCalls == {PatExecute, PatFetchOne, PatFetchAll, PatFetchOptional}
\* the two argument lists the second pass names
ArgLists == {PatCallComma, PatCallClose}

IsIdent(w) ==
    /\ w # <<>>
    /\ w[1] \in IdentStart
    /\ \A j \in 2..Len(w) : w[j] \in IdentChar

\* an identifier, optionally prefixed by `ident::`
IsName(w) ==
    \/ IsIdent(w)
    \/ \E k \in 2..Len(w) :
          /\ IsIdent(SubSeq(w, 1, k - 1))
          /\ LitAt(PathSep, w, k)
          /\ IsIdent(SubSeq(w, k + Len(PathSep), Len(w)))

\* an occurrence of one of the six patterns ends at position j of s
OccurrenceEndsAt(s, j) ==
    \/ \E m \in MethodCalls : LitAt(m, s, j - Len(m) + 1)
    \/ \E a \in ArgLists :
          /\ LitAt(a, s, j - Len(a) + 1)
          /\ \E i \in 1..(j - Len(a)) : IsName(SubSeq(s, i, j - Len(a)))

\* the positions of the `pool` arguments of the occurrences in s: each pattern
\* ends with `pool` and one more character
PoolHits(s) ==
    { j - Len(Pool) : j \in { e \in 1..Len(s) : OccurrenceEndsAt(s, e) } }

RECURSIVE InsertDeref(_, _, _)
InsertDeref(s, H, k) ==
    IF k > Len(s) THEN <<>>
    ELSE (IF k \in H THEN Deref ELSE <<>>) \o <<s[k]>> \o InsertDeref(s, H, k + 1)

\* s with `&*` put before the `pool` of every occurrence, nothing else changed
Expected(s) == InsertDeref(s, PoolHits(s), 1)

CountOcc(lit, s) == Cardinality({ i \in 1..Len(s) : LitAt(lit, s, i) })

\* every `pool` in s is part of a longer identifier
NoStandalonePool(s) ==
    \A q \in 1..Len(s) :
        LitAt(Pool, s, q) =>
            \/ q > 1 /\ s[q - 1] \in IdentChar
            \/ q + Len(Pool) <= Len(s) /\ s[q + Len(Pool)] \in IdentChar

\* the first k rules applied in their order
RECURSIVE ApplyUpTo(_, _)
ApplyUpTo(k, s) ==
    IF k = 0 THEN s ELSE Sub(Rules[k], ApplyUpTo(k - 1, s))

\* the call in progress has read its file
HasRead == fpc \in {"sub", "cmp", "write", "except", "ret"} /\ content # Unset
\* the call in progress is in its chain of substitutions, or just past it
InChain == fpc \in {"sub", "cmp"}
\* the call in progress has just run the whole chain
HasSubstituted == fpc = "cmp"

IOErrors == {"read", "open", "write"}

---------------------------------------------------------------------------
(* The claims *)

\* C1: a file is opened for writing exactly when the content after the six
\* substitutions differs from the content read; a file in which no pattern
\* occurs is never opened for writing, keeps its bytes and makes
\* fix_pool_patterns return False; a run over a tree without any occurrence
\* writes nothing and counts nothing.
C1_WritesOnlyWhenChanged ==
    /\ \A f \in tree :
          /\ opens[f] <= 1
          /\ (fpc \in {"write", "except", "ret"} /\ file_path = f /\ HasRead)
                => (opens[f] = 1 <=> content # original_content)
          /\ (fpc \in {"read", "sub", "cmp"} /\ file_path = f) => opens[f] = 0
          /\ \/ /\ opens[f] = 0
                /\ disk[f] = Pre(f)
                /\ printed[f] # "fixed"
                /\ (fpc = "ret" /\ file_path = f) => retval = FALSE
             \/ PoolHits(Pre(f)) # {}
    /\ fixed_count = 0 \/ \E f \in tree : PoolHits(Pre(f)) # {}

\* C1 witness: a finished run over two files, one rewritten and one in which
\* no pattern occurs and which was never opened for writing
C1_Witness ==
    /\ pc = "done"
    /\ \E f, g \in tree :
          /\ opens[f] = 1 /\ printed[f] = "fixed"
          /\ PoolHits(Pre(g)) = {} /\ calls[g] = 1 /\ opens[g] = 0

\* C2: when opening the file for writing or writing it fails, the file holds
\* its pre-run content.
C2_FailedWriteKeepsOriginal ==
    \A f \in tree : printed[f] \in {"open", "write"} => disk[f] = Pre(f)

C4_EachArgumentRewrittenOnce ==
    InChain =>
        /\ rule \in 1..(NumRules + 1)
        /\ fpc = "cmp" <=> rule > NumRules
        /\ fpc = "cmp" => content = ApplyUpTo(NumRules, original_content)
        /\ CountOcc(DoubleDeref, content) <= CountOcc(DoubleDeref, original_content)
        /\ Len(content) <= Len(original_content)
                             + Len(Deref) * Cardinality(PoolHits(original_content))
        /\ rule > NumRules =>
              Len(content) = Len(original_content)
                               + Len(Deref) * Cardinality(PoolHits(original_content))

\* C4 witness: the chain has run on a text that starts with `.execute(pool)`,
\* which the first rule rewrites and the last rule could match again
C4_Witness ==
    /\ fpc = "cmp"
    /\ LitAt(PatExecute, original_content, 1)
    /\ LitAt(RepExecute, content, 1)

\* C5: the chain applied to its own output changes nothing, and a second run
\* over the files a first run left opens none of them for writing.
C5_SecondApplicationChangesNothing ==
    /\ HasSubstituted => ApplyRules(content) = content
    /\ run > 1 =>
          /\ \A f \in tree : opens[f] = 0 /\ disk[f] = Pre(f)
          /\ HasSubstituted => content = original_content
          /\ fixed_count = 0

\* C5 witness: a second run has finished on a file the first run rewrote
C5_Witness ==
    /\ run > 1
    /\ pc = "done"
    /\ \E f \in tree : snap[1][f] # disk[f] /\ calls[f] = 1

\* C6: a text in which `pool` stands only inside longer identifiers is left
\* unchanged by every substitution.
C6_LongerIdentifiersUntouched ==
    (HasRead /\ NoStandalonePool(original_content)) =>
        /\ content = original_content
        /\ fpc \notin {"write"}

\* C6 witness: the call on `f(poolmanager)` has returned
C6_Witness ==
    /\ fpc = "ret"
    /\ original_content = Samples[2]
    /\ content = Samples[2]

\* C7: an error raised while a file is read or written is caught in
\* fix_pool_patterns and printed with the file and the cause; the call returns
\* False, and main goes on to every other file and to its summary.
C7_ErrorsStayInTheirFile ==
    /\ pc # "crashed"
    /\ pc \notin {"done", "aborted"} => ENABLED Next
    /\ (fpc = "ret" /\ exc # "none") =>
          printed[file_path] = exc /\ retval = FALSE
    /\ \A f \in tree : printed[f] \in IOErrors => calls[f] = 1
    /\ pc = "done" =>
          /\ Len(rust_files) = Cardinality(tree)
          /\ \A f \in tree : calls[f] = 1

\* C7 witness: a run has finished in which the first file failed and a later
\* file was rewritten
C7_Witness ==
    /\ pc = "done"
    /\ Len(rust_files) > 1
    /\ printed[rust_files[1]] \in IOErrors
    /\ \E k \in 2..Len(rust_files) : printed[rust_files[k]] = "fixed"

\* C8: when the source directory is missing, main returns before it scans:
\* no file is listed, fix_pool_patterns is never called, nothing is written.
C8_MissingRootAborts ==
    ~rootExists =>
        /\ pc \in {"start", "aborted"}
        /\ rust_files = <<>>
        /\ fpc = "idle"
        /\ \A f \in tree : calls[f] = 0 /\ opens[f] = 0
        /\ disk = snap[1]

\* C8 witness: main has returned on a missing source directory
C8_Witness == ~rootExists /\ pc = "aborted"

\* C9: when the run completes every scanned file was processed once and
\* fixed_count is the number of files whose content differs from their
\* pre-run content, and at most the number of scanned files.
C9_FixedCountMatchesDisk ==
    pc = "done" =>
        /\ \A f \in tree : calls[f] = 1
        /\ fixed_count <= Len(rust_files)
        /\ fixed_count = Cardinality({ f \in tree : disk[f] # Pre(f) })

\* C10: the scanned files are processed in lexicographic order of their paths.
C10_ScanOrderLexicographic ==
    pc \in {"loop", "done"} =>
        \A a, b \in DOMAIN rust_files : a < b => rust_files[a] < rust_files[b]

=============================================================================
